---------------------------- MODULE Spec2Model ----------------------------
(***************************************************************************)
(* Model of the two example plugins of the Stavily agents repository:      *)
(*   examples/plugins/cpu-monitor/cpu_monitor.py     (trigger plugin)      *)
(*   examples/plugins/service-restart/service_restart.py (action plugin)   *)
(* Each plugin is one object (variable self) driven by the dispatch loop   *)
(* main(): read a line, decode it, call the handler, print the response.   *)
(*                                                                         *)
(* Numbers that Python holds as floats (threshold, cpu usage) are kept in  *)
(* tenths: 80.0 is 800.  Time is an integer clock; every datetime.now()    *)
(* read returns the previous reading or a later one.                       *)
(***************************************************************************)
EXTENDS Integers, Sequences, FiniteSets, TLC

VARIABLES
    kind,       \* which program runs: "trigger" (cpu_monitor) or "action" (service_restart)
    self,       \* the plugin object: its instance attributes
    now,        \* the last value the wall clock returned
    pc,         \* position of main(): "read", "dispatch", "print", "done"
                \* ("blocked": inside a call that does not come back)
    line,       \* the line read by the current iteration of main()
    response,   \* the local variable response of main()
    stdin_open, \* FALSE once readline() has returned end-of-file
    nread,      \* number of non-empty lines read from stdin so far
    out,        \* stdout: for each line printed, the index of the input line it answers
    prev,       \* history: the lifecycle command answered last ("other" for any
                \* other line, "none" before the first)
    info        \* history: the PluginInfo the first get_info call returned;
                \* kept only in the behaviours of SpecInfo

vars == <<kind, self, now, pc, line, response, stdin_open, nread, out, prev, info>>

\* Bounds of the model.
MaxLines == 4       \* lines fed to the loop before stdin is closed
MaxTime == 2        \* the clock stops advancing at this reading

-----------------------------------------------------------------------------
(* JSON values of configuration options.  k is the JSON kind, n the number *)
(* (an int as such, a float in tenths, a bool as 0/1), d the characters of *)
(* a string.                                                               *)

Absent == [k |-> "absent", n |-> 0, d |-> <<>>]
NullV == [k |-> "null", n |-> 0, d |-> <<>>]
IntV(i) == [k |-> "int", n |-> i, d |-> <<>>]
FloatV(tenths) == [k |-> "float", n |-> tenths, d |-> <<>>]
BoolV(b) == [k |-> "bool", n |-> IF b THEN 1 ELSE 0, d |-> <<>>]
StrV(chars) == [k |-> "str", n |-> 0, d |-> chars]

\* dict.get(key, default): the default only when the key is absent.
DictGet(v, default) == IF v.k = "absent" THEN default ELSE v

Digit == [c \in {"0", "1", "2", "3", "4", "5", "6", "7", "8", "9"} |->
            CASE c = "0" -> 0 [] c = "1" -> 1 [] c = "2" -> 2 [] c = "3" -> 3
              [] c = "4" -> 4 [] c = "5" -> 5 [] c = "6" -> 6 [] c = "7" -> 7
              [] c = "8" -> 8 [] c = "9" -> 9]

IsDigits(s) == Len(s) >= 1 /\ \A i \in 1..Len(s) : s[i] \in DOMAIN Digit

RECURSIVE NatOf(_)
NatOf(s) == IF s = <<>> THEN 0
            ELSE 10 * NatOf(SubSeq(s, 1, Len(s) - 1)) + Digit[s[Len(s)]]

Unsigned(s) == IF s # <<>> /\ s[1] \in {"-", "+"} THEN Tail(s) ELSE s
Sign(s) == IF s # <<>> /\ s[1] = "-" THEN -1 ELSE 1

\* int("..."): an optionally signed run of decimal digits, else ValueError.
ParseInt(s) ==
    IF IsDigits(Unsigned(s))
    THEN [ok |-> TRUE, val |-> Sign(s) * NatOf(Unsigned(s))]
    ELSE [ok |-> FALSE, val |-> 0]

\* float("..."): digits, or digits "." one digit (the strings of this model
\* carry at most one decimal); the value in tenths.  Else ValueError.
ParseFloat(s) ==
    LET u == Unsigned(s)
        dots == {i \in 1..Len(u) : u[i] = "."}
    IN  IF IsDigits(u)
        THEN [ok |-> TRUE, val |-> Sign(s) * 10 * NatOf(u)]
        ELSE IF /\ Cardinality(dots) = 1
                /\ Len(u) - 1 \in dots
                /\ IsDigits(SubSeq(u, 1, Len(u) - 2))
                /\ IsDigits(SubSeq(u, Len(u), Len(u)))
        THEN [ok |-> TRUE,
              val |-> Sign(s) * (10 * NatOf(SubSeq(u, 1, Len(u) - 2))
                                 + Digit[u[Len(u)]])]
        ELSE [ok |-> FALSE, val |-> 0]

\* float(x) of Python, in tenths; ok = FALSE when it raises.
PyFloat(v) ==
    CASE v.k = "int" -> [ok |-> TRUE, val |-> 10 * v.n]
      [] v.k = "float" -> [ok |-> TRUE, val |-> v.n]
      [] v.k = "bool" -> [ok |-> TRUE, val |-> 10 * v.n]
      [] v.k = "str" -> ParseFloat(v.d)
      [] OTHER -> [ok |-> FALSE, val |-> 0]

\* int(x) of Python: truncation toward zero for a float; ok = FALSE when it raises.
PyInt(v) ==
    CASE v.k = "int" -> [ok |-> TRUE, val |-> v.n]
      [] v.k = "float" -> [ok |-> TRUE,
                           val |-> IF v.n >= 0 THEN v.n \div 10 ELSE -((-v.n) \div 10)]
      [] v.k = "bool" -> [ok |-> TRUE, val |-> v.n]
      [] v.k = "str" -> ParseInt(v.d)
      [] OTHER -> [ok |-> FALSE, val |-> 0]

\* A datetime attribute: None, or the clock reading stored in it.
NoTime == [set |-> FALSE, t |-> 0]
At(t) == [set |-> TRUE, t |-> t]

\* The readings a clock read can return after reading t.
Later(t) == {u \in t..(t + 1) : u <= MaxTime}


-----------------------------------------------------------------------------
(* CPUMonitorPlugin (cpu_monitor.py).  The object is a record of its       *)
(* attributes; a method is an operator from the object, its arguments and  *)
(* what the environment hands it (clock readings, the psutil sample) to    *)
(* the object afterwards and the returned value.                           *)

DefaultThreshold == 800     \* self.threshold = 80.0
DefaultInterval == 30       \* self.interval = 30
HighCutoff == 900           \* "high" if cpu_usage > 90

\* A config of the trigger plugin: the value under each key the code reads.
\* isdict = FALSE is a config that is no JSON object.
CpuConfig(th, iv) == [isdict |-> TRUE, threshold |-> th, interval |-> iv]
CpuEmptyConfig == CpuConfig(Absent, Absent)
CpuNotADict == [isdict |-> FALSE, threshold |-> Absent, interval |-> Absent]

cpu_init ==
    [config |-> CpuEmptyConfig,
     threshold |-> DefaultThreshold,
     interval |-> DefaultInterval,
     running |-> FALSE,
     status |-> "stopped",
     start_time |-> NoTime]

\* The except branch of initialize: s is the object as the try block left it.
cpu_initialize_failed(s) == [self |-> [s EXCEPT !.status = "error"], ret |-> FALSE]

\* initialize() reading an absent option from the object instead of the
\* default (a merge): the variant C22 is set against.
cpu_initialize_merging(s, config) ==
    LET s1 == [s EXCEPT !.config = config]
        f == PyFloat(DictGet(config.threshold, FloatV(s.threshold)))
        s2 == [s1 EXCEPT !.threshold = f.val]
        i == PyInt(DictGet(config.interval, IntV(s.interval)))
        s3 == [s2 EXCEPT !.interval = i.val]
    IN  IF ~config.isdict THEN cpu_initialize_failed(s1)
        ELSE IF ~f.ok THEN cpu_initialize_failed(s1)
        ELSE IF ~i.ok THEN cpu_initialize_failed(s2)
        ELSE IF ~(0 <= s3.threshold /\ s3.threshold <= 1000)
             THEN cpu_initialize_failed(s3)
        ELSE IF s3.interval < 1 THEN cpu_initialize_failed(s3)
        ELSE [self |-> [s3 EXCEPT !.status = "initialized"], ret |-> TRUE]

cpu_initialize(s, config) ==
    LET s1 == [s EXCEPT !.config = config]
        f == PyFloat(DictGet(config.threshold, FloatV(DefaultThreshold)))
        s2 == [s1 EXCEPT !.threshold = f.val]
        i == PyInt(DictGet(config.interval, IntV(DefaultInterval)))
        s3 == [s2 EXCEPT !.interval = i.val]
    IN  IF ~config.isdict THEN cpu_initialize_failed(s1)      \* config.get raises
        ELSE IF ~f.ok THEN cpu_initialize_failed(s1)          \* float() raises
        ELSE IF ~i.ok THEN cpu_initialize_failed(s2)          \* int() raises
        ELSE IF ~(0 <= s3.threshold /\ s3.threshold <= 1000)
             THEN cpu_initialize_failed(s3)
        ELSE IF s3.interval < 1 THEN cpu_initialize_failed(s3)
        ELSE [self |-> [s3 EXCEPT !.status = "initialized"], ret |-> TRUE]

\* start(): n0 is the clock before the call, t the reading datetime.now()
\* returns if the method gets to it.
cpu_start(s, n0, t) ==
    IF s.running
    THEN [self |-> s, ret |-> TRUE, now |-> n0]
    ELSE [self |-> [s EXCEPT !.running = TRUE, !.status = "running",
                             !.start_time = At(t)],
          ret |-> TRUE, now |-> t]

\* stop() written like start(), returning early when the plugin is not
\* running: the variant C6 is set against.
cpu_stop_when_running(s) ==
    IF ~s.running
    THEN [self |-> s, ret |-> TRUE]
    ELSE [self |-> [s EXCEPT !.running = FALSE, !.status = "stopped"], ret |-> TRUE]

cpu_stop(s) ==
    [self |-> [s EXCEPT !.running = FALSE, !.status = "stopped"], ret |-> TRUE]

cpu_get_status(s) == s.status

\* get_info(): created_at and updated_at are two reads of the clock.
cpu_get_info(t1, t2) ==
    [t |-> "info", id |-> "cpu-monitor", type |-> "trigger",
     created_at |-> t1, updated_at |-> t2]

\* _get_cpu_usage(): what psutil.cpu_percent returns (tenths of a percent),
\* or an exception of psutil.
Sample(v) == [ok |-> TRUE, val |-> v]
SampleFails == [ok |-> FALSE, val |-> 0]

\* get_health(): t1 is the reading of last_check, t2 the reading of the
\* uptime computation (made only when start_time is set).
cpu_get_health(s, t1, sample, t2) ==
    IF ~sample.ok
    THEN [raised |-> TRUE, data |-> [t |-> "null"], now |-> t1]
    ELSE [raised |-> FALSE,
          data |-> [t |-> "health",
                    status |-> IF s.running THEN "healthy" ELSE "unhealthy",
                    message |-> IF s.running THEN "Plugin is running normally"
                                             ELSE "Plugin is not running",
                    last_check |-> t1,
                    uptime |-> IF s.start_time.set THEN t2 - s.start_time.t ELSE 0,
                    error_count |-> 0,
                    current_cpu_usage |-> sample.val,
                    threshold |-> s.threshold],
          now |-> IF s.start_time.set THEN t2 ELSE t1]

NoEvent == [t |-> "null"]

\* detect_triggers() comparing with >= where the code has >: the variant
\* C16 is set against.
cpu_detect_triggers_at_threshold(s, n0, sample, t1, t2) ==
    IF ~s.running THEN [data |-> NoEvent, now |-> n0]
    ELSE IF ~sample.ok THEN [data |-> NoEvent, now |-> n0]
    ELSE IF sample.val >= s.threshold
    THEN [data |-> [t |-> "event", id |-> t1, type |-> "cpu.high",
                    source |-> "cpu-monitor", timestamp |-> t2,
                    cpu_usage |-> sample.val, threshold |-> s.threshold,
                    severity |-> IF sample.val >= HighCutoff THEN "high" ELSE "medium"],
          now |-> t2]
    ELSE [data |-> NoEvent, now |-> n0]

\* detect_triggers(): t1 is time.time() of the event id, t2 the timestamp.
cpu_detect_triggers(s, n0, sample, t1, t2) ==
    IF ~s.running THEN [data |-> NoEvent, now |-> n0]
    ELSE IF ~sample.ok THEN [data |-> NoEvent, now |-> n0]
    ELSE IF sample.val > s.threshold
    THEN [data |-> [t |-> "event", id |-> t1, type |-> "cpu.high",
                    source |-> "cpu-monitor", timestamp |-> t2,
                    cpu_usage |-> sample.val, threshold |-> s.threshold,
                    severity |-> IF sample.val > HighCutoff THEN "high" ELSE "medium"],
          now |-> t2]
    ELSE [data |-> NoEvent, now |-> n0]

\* get_trigger_config(): the published ConfigSchema (bounds in tenths for
\* the number, as such for the integer).
cpu_get_trigger_config ==
    [t |-> "schema",
     threshold |-> [type |-> "number", minimum |-> 0, hasMax |-> TRUE, maximum |-> 1000],
     interval |-> [type |-> "integer", minimum |-> 1, hasMax |-> FALSE, maximum |-> 0]]

-----------------------------------------------------------------------------
(* ServiceRestartPlugin (service_restart.py).                              *)

\* Values of action parameters and of the service options: k the JSON kind,
\* s the characters of a string.
PAbsent == [k |-> "absent", s |-> <<>>]
PNull == [k |-> "null", s |-> <<>>]
PInt == [k |-> "int", s |-> <<>>]           \* some non-zero number
PStr(chars) == [k |-> "str", s |-> chars]

Systemctl == <<"s", "y", "s", "t", "e", "m", "c", "t", "l">>
Service == <<"s", "e", "r", "v", "i", "c", "e">>
Docker == <<"d", "o", "c", "k", "e", "r">>
Nginx == <<"n", "g", "i", "n", "x">>
Mysql == <<"m", "y", "s", "q", "l">>
Cron == <<"c", "r", "o", "n">>
Upstart == <<"u", "p", "s", "t", "a", "r", "t">>
SpacedName == <<"r", "m", " ", "x">>

Managers == {Systemctl, Service, Docker}

\* The value of allowed_services: a JSON list of names, or null.
ListV(names) == [k |-> "list", items |-> names]
ListAbsent == [k |-> "absent", items |-> {}]
ListNull == [k |-> "null", items |-> {}]

SvcConfig(al, sm) == [isdict |-> TRUE, allowed_services |-> al, service_manager |-> sm]
SvcEmptyConfig == SvcConfig(ListAbsent, PAbsent)
SvcNotADict == [isdict |-> FALSE, allowed_services |-> ListAbsent,
                service_manager |-> PAbsent]

svc_init ==
    [config |-> SvcEmptyConfig,
     running |-> FALSE,
     status |-> "stopped",
     start_time |-> NoTime,
     allowed_services |-> ListV({}),
     service_manager |-> PStr(Systemctl)]

svc_initialize_failed(s) == [self |-> [s EXCEPT !.status = "error"], ret |-> FALSE]

\* initialize(): available is what _check_service_manager() returns on
\* this host for the manager just stored.
svc_initialize(s, config, available) ==
    LET s1 == [s EXCEPT !.config = config]
        s2 == [s1 EXCEPT
                 !.allowed_services =
                     IF config.allowed_services.k = "absent" THEN ListV({})
                     ELSE config.allowed_services,
                 !.service_manager = DictGet(config.service_manager, PStr(Systemctl))]
    IN  IF ~config.isdict THEN svc_initialize_failed(s1)
        ELSE IF ~(s2.service_manager.k = "str" /\ s2.service_manager.s \in Managers)
             THEN svc_initialize_failed(s2)
        ELSE IF ~available THEN svc_initialize_failed(s2)
        ELSE [self |-> [s2 EXCEPT !.status = "initialized"], ret |-> TRUE]

svc_start(s, n0, t) ==
    IF s.running
    THEN [self |-> s, ret |-> TRUE, now |-> n0]
    ELSE [self |-> [s EXCEPT !.running = TRUE, !.status = "running",
                             !.start_time = At(t)],
          ret |-> TRUE, now |-> t]

svc_stop(s) ==
    [self |-> [s EXCEPT !.running = FALSE, !.status = "stopped"], ret |-> TRUE]

svc_get_status(s) == s.status

svc_get_info(t1, t2) ==
    [t |-> "info", id |-> "service-restart", type |-> "action",
     created_at |-> t1, updated_at |-> t2]

\* get_health(): len(self.allowed_services) raises when the stored value
\* is None.
svc_get_health(s, t1, t2) ==
    IF s.allowed_services.k # "list"
    THEN [raised |-> TRUE, data |-> [t |-> "null"], now |-> t1]
    ELSE [raised |-> FALSE,
          data |-> [t |-> "health",
                    status |-> IF s.running THEN "healthy" ELSE "unhealthy",
                    message |-> IF s.running THEN "Plugin is running normally"
                                             ELSE "Plugin is not running",
                    last_check |-> t1,
                    uptime |-> IF s.start_time.set THEN t2 - s.start_time.t ELSE 0,
                    error_count |-> 0,
                    service_manager |-> s.service_manager,
                    allowed_services_count |-> Cardinality(s.allowed_services.items)],
          now |-> IF s.start_time.set THEN t2 ELSE t1]

\* _is_valid_service_name(): ^[a-zA-Z0-9._-]+$ and at most 100 characters.
NameChar ==
    {"a", "b", "c", "d", "e", "f", "g", "h", "i", "j", "k", "l", "m", "n", "o",
     "p", "q", "r", "s", "t", "u", "v", "w", "x", "y", "z",
     "A", "B", "C", "D", "E", "F", "G", "H", "I", "J", "K", "L", "M", "N", "O",
     "P", "Q", "R", "S", "T", "U", "V", "W", "X", "Y", "Z",
     "0", "1", "2", "3", "4", "5", "6", "7", "8", "9", ".", "_", "-"}

svc_is_valid_service_name(name) ==
    /\ Len(name) >= 1
    /\ \A i \in 1..Len(name) : name[i] \in NameChar
    /\ Len(name) <= 100

\* _create_error_result() that leaves the request's id out: the variant
\* C17 is set against.
svc_create_error_result_anonymous(action_id, error, st, t1, t2, t3) ==
    LET start == IF st.set THEN st.t ELSE t1
    IN  [t |-> "result", id |-> "", status |-> "failed", error |-> error,
         started_at |-> start, completed_at |-> t2, duration |-> t3 - start,
         hasData |-> FALSE, service_name |-> <<>>, method |-> <<>>, command |-> <<>>]

\* _create_error_result(): st is the start_time argument (NoTime for None),
\* t1, t2, t3 the clock reads it makes in order (t1 only when st is None).
svc_create_error_result(action_id, error, st, t1, t2, t3) ==
    LET start == IF st.set THEN st.t ELSE t1
    IN  [t |-> "result", id |-> action_id, status |-> "failed", error |-> error,
         started_at |-> start, completed_at |-> t2, duration |-> t3 - start,
         hasData |-> FALSE, service_name |-> <<>>, method |-> <<>>, command |-> <<>>]

\* _simulate_restart_command()
SimulatedServices ==
    {Nginx, <<"a", "p", "a", "c", "h", "e", "2">>, Mysql,
     <<"p", "o", "s", "t", "g", "r", "e", "s", "q", "l">>,
     <<"r", "e", "d", "i", "s">>, Docker}

svc_simulate_restart_command(cmd, service_name) ==
    IF service_name \in SimulatedServices
    THEN [success |-> TRUE, error |-> "", command |-> cmd]
    ELSE [success |-> FALSE, error |-> "Service not found (simulated)", command |-> cmd]

\* _execute_restart_command(): demo is STAVILY_DEMO_MODE, run what
\* subprocess.run does when the command is really executed: "exit0",
\* "exit1", "timeout" (TimeoutExpired) or "oserror" (any other exception).
svc_execute_restart_command(service_name, method, demo, run) ==
    LET cmd == CASE method = Systemctl -> <<Systemctl, <<"restart">>, service_name>>
                 [] method = Service -> <<Service, service_name, <<"restart">>>>
                 [] method = Docker -> <<Docker, <<"restart">>, service_name>>
                 [] OTHER -> <<>>
    IN  IF cmd = <<>>
        THEN [success |-> FALSE, error |-> "Unsupported method", command |-> <<>>]
        ELSE IF demo THEN svc_simulate_restart_command(cmd, service_name)
        ELSE CASE run = "exit0" -> [success |-> TRUE, error |-> "", command |-> cmd]
               [] run = "exit1" -> [success |-> FALSE, error |-> "stderr", command |-> cmd]
               [] run = "timeout" ->
                    [success |-> FALSE, error |-> "Command timed out", command |-> cmd]
               [] OTHER -> [success |-> FALSE, error |-> "oserror", command |-> cmd]

\* The time bound of a run of the restart command: subprocess.run is given
\* the literal 30; the simulated restart runs no command.
RunTimeout == 30
Bound(n) == [bounded |-> TRUE, seconds |-> n]
Unbounded == [bounded |-> FALSE, seconds |-> 0]

\* The restart command run with no time bound: the variant C21 is set
\* against.
svc_restart_timeout_none(demo) == Unbounded

svc_restart_timeout(demo) == IF demo THEN Unbounded ELSE Bound(RunTimeout)

\* Whether the call of _execute_restart_command comes back: the simulation
\* always does; subprocess.run does when the child exits or cannot be
\* started, and, for a child that stalls (run = "timeout"), when the bound
\* expires and TimeoutExpired is raised.
svc_run_returns(demo, run) ==
    demo \/ run # "timeout" \/ svc_restart_timeout(demo).bounded

\* An action request: hasId = FALSE when it has no "id" key; the values of
\* its parameters service_name, method and timeout.
Request(hasId, id, sn, m, to) ==
    [hasId |-> hasId, id |-> id, service_name |-> sn, method |-> m, timeout |-> to]

\* The allow-list check without the list: the variant C18 is set against.
svc_service_allowed_any(s, service_name) == TRUE

\* not (self.allowed_services and service_name not in self.allowed_services)
svc_service_allowed(s, service_name) ==
    ~ /\ s.allowed_services.k = "list"
      /\ s.allowed_services.items # {}
      /\ service_name \notin s.allowed_services.items

\* execute_action() whose except branch does not update the result: the
\* variant C24 is set against.
svc_execute_action_unfinished(s, req, n0, demo, run, t1, t2, t3) ==
    LET st == At(t1)
        sn == req.service_name
        m == DictGet(req.method, s.service_manager)
        Ret(r) == [raised |-> FALSE, data |-> r, now |-> t3, timeout |-> Unbounded,
                   returns |-> TRUE]
        Ran(x) == [x EXCEPT !.timeout = svc_restart_timeout(demo),
                            !.returns = svc_run_returns(demo, run)]
        Err(e) == Ret(svc_create_error_result(req.id, e, st, t1, t2, t3))
        Final(status, error, hasData, method, cmd) ==
            Ret([t |-> "result", id |-> req.id, status |-> status, error |-> error,
                 started_at |-> t1, completed_at |-> t2, duration |-> t3 - t1,
                 hasData |-> hasData,
                 service_name |-> IF hasData THEN sn.s ELSE <<>>,
                 method |-> method, command |-> cmd])
    IN  IF ~req.hasId
        THEN [raised |-> TRUE, data |-> [t |-> "null"],
              now |-> IF s.running THEN t1 ELSE n0, timeout |-> Unbounded,
              returns |-> TRUE]
        ELSE IF ~s.running
        THEN Ret(svc_create_error_result(req.id, "Plugin is not running",
                                         NoTime, t1, t2, t3))
        ELSE IF sn.k \in {"absent", "null"} \/ (sn.k = "str" /\ sn.s = <<>>)
        THEN Err("service_name parameter is required")
        ELSE IF sn.k # "str"
        THEN Final("running", "", FALSE, <<>>, <<>>)
        ELSE IF ~svc_is_valid_service_name(sn.s)
        THEN Err("Invalid service name")
        ELSE IF ~svc_service_allowed(s, sn.s)
        THEN Err("Service is not in allowed list")
        ELSE IF ~(m.k = "str" /\ m.s \in Managers)
        THEN Err("Unsupported method")
        ELSE LET c == svc_execute_restart_command(sn.s, m.s, demo, run)
             IN  IF c.success
                 THEN Ran(Final("completed", "", TRUE, m.s, c.command))
                 ELSE Ran(Final("failed", c.error, TRUE, m.s, c.command))

\* execute_action(): n0 is the clock before the call, t1, t2, t3 are the
\* successive clock reads of the call.  raised = TRUE when the call ends in
\* an exception (KeyError on "id": before any clock read when not running,
\* after the read of start_time when running).  timeout is the time bound
\* under which the restart command was run, Unbounded when none was run.
svc_execute_action(s, req, n0, demo, run, t1, t2, t3) ==
    LET st == At(t1)
        sn == req.service_name
        m == DictGet(req.method, s.service_manager)
        Ret(r) == [raised |-> FALSE, data |-> r, now |-> t3, timeout |-> Unbounded,
                   returns |-> TRUE]
        Ran(x) == [x EXCEPT !.timeout = svc_restart_timeout(demo),
                            !.returns = svc_run_returns(demo, run)]
        Err(e) == Ret(svc_create_error_result(req.id, e, st, t1, t2, t3))
        Final(status, error, hasData, method, cmd) ==
            Ret([t |-> "result", id |-> req.id, status |-> status, error |-> error,
                 started_at |-> t1, completed_at |-> t2, duration |-> t3 - t1,
                 hasData |-> hasData,
                 service_name |-> IF hasData THEN sn.s ELSE <<>>,
                 method |-> method, command |-> cmd])
    IN  IF ~req.hasId
        THEN [raised |-> TRUE, data |-> [t |-> "null"],
              now |-> IF s.running THEN t1 ELSE n0, timeout |-> Unbounded,
              returns |-> TRUE]
        ELSE IF ~s.running
        THEN Ret(svc_create_error_result(req.id, "Plugin is not running",
                                         NoTime, t1, t2, t3))
        ELSE IF sn.k \in {"absent", "null"} \/ (sn.k = "str" /\ sn.s = <<>>)
        THEN Err("service_name parameter is required")
        ELSE IF sn.k # "str"
        THEN Final("failed", "TypeError", FALSE, <<>>, <<>>)   \* re.match raises
        ELSE IF ~svc_is_valid_service_name(sn.s)
        THEN Err("Invalid service name")
        ELSE IF ~svc_service_allowed(s, sn.s)
        THEN Err("Service is not in allowed list")
        ELSE IF ~(m.k = "str" /\ m.s \in Managers)
        THEN Err("Unsupported method")
        ELSE LET c == svc_execute_restart_command(sn.s, m.s, demo, run)
             IN  IF c.success
                 THEN Ran(Final("completed", "", TRUE, m.s, c.command))
                 ELSE Ran(Final("failed", c.error, TRUE, m.s, c.command))

\* get_action_config(): the schema of the action's parameters.
svc_get_action_config ==
    [t |-> "schema", required |-> {"service_name"},
     method_enum |-> Managers,
     timeout |-> [type |-> "integer", default |-> 30, minimum |-> 5, maximum |-> 300]]

-----------------------------------------------------------------------------
(* The input lines and the responses of main().                            *)

Act(a) == [k |-> "str", s |-> a]
NoAction == [k |-> "null", s |-> ""]        \* command.get("action") is None

EmptyRequest == Request(FALSE, "", PAbsent, PAbsent, Absent)    \* the default {}

\* A line of stdin.  form: "eof" (readline returns ""), "blank" (only
\* whitespace), "garbage" (no JSON), "scalar" (JSON, but no object),
\* "object" (a command).  config and action_request hold what
\* command.get(key, {}) returns.
CommandLine(action, config, request) ==
    [form |-> "object", action |-> action, config |-> config,
     action_request |-> request]

EmptyConfigOf(k) == IF k = "trigger" THEN CpuEmptyConfig ELSE SvcEmptyConfig

OtherLine(form, k) ==
    [form |-> form, action |-> NoAction, config |-> EmptyConfigOf(k),
     action_request |-> EmptyRequest]

CpuConfigs ==
    {CpuConfig(th, Absent) :
        th \in {Absent, IntV(90), IntV(150), StrV(<<"5", "0">>), NullV}}
    \cup {CpuConfig(Absent, iv) :
        iv \in {IntV(60), IntV(0), FloatV(25), StrV(<<"2", ".", "5">>)}}
    \cup {CpuConfig(IntV(150), IntV(60)), CpuNotADict}

SvcConfigs ==
    {SvcConfig(al, PAbsent) : al \in {ListAbsent, ListV({Nginx}), ListV({Mysql}), ListNull}}
    \cup {SvcConfig(ListAbsent, sm) : sm \in {PStr(Docker), PStr(Upstart), PNull}}
    \cup {SvcConfig(ListV({Mysql}), PStr(Upstart)), SvcNotADict}

Requests ==
    {Request(TRUE, "a1", sn, PAbsent, Absent) :
        sn \in {PAbsent, PStr(<<>>), PStr(Nginx), PStr(Cron), PStr(SpacedName), PInt}}
    \cup {Request(TRUE, "a1", PStr(Nginx), m, Absent) :
             m \in {PStr(Service), PStr(Upstart)}}
    \cup {Request(TRUE, "a2", sn, PAbsent, Absent) : sn \in {PAbsent, PStr(Nginx)}}
    \cup {Request(TRUE, "a1", PStr(Nginx), PAbsent, IntV(60))}
    \cup {EmptyRequest, Request(FALSE, "", PStr(Nginx), PAbsent, Absent)}

Samples == {Sample(800), Sample(900), Sample(950), SampleFails}

ActionNames ==
    {"get_info", "initialize", "start", "stop", "get_status", "get_health",
     "detect_triggers", "get_trigger_config", "execute_action",
     "get_action_config", "foo"}

Lines(k) ==
    {OtherLine(f, k) : f \in {"eof", "blank", "garbage", "scalar"}}
    \cup {CommandLine(a, EmptyConfigOf(k), EmptyRequest) :
            a \in {Act(n) : n \in ActionNames} \cup {NoAction}}
    \cup {CommandLine(Act("initialize"), c, EmptyRequest) :
            c \in IF k = "trigger" THEN CpuConfigs ELSE SvcConfigs}
    \cup {CommandLine(Act("execute_action"), EmptyConfigOf(k), r) :
            r \in IF k = "action" THEN Requests ELSE {}}

NoLine == OtherLine("none", "trigger")

NoData == [t |-> "null"]
NoError == [msg |-> "", arg |-> NoAction]

\* response = {"action": action, "success": False}
Envelope(action) ==
    [hasAction |-> TRUE, action |-> action, hasSuccess |-> TRUE, success |-> FALSE,
     hasData |-> FALSE, data |-> NoData, hasError |-> FALSE, error |-> NoError]

\* response = {"error": msg}
ErrorOnly(msg) ==
    [hasAction |-> FALSE, action |-> NoAction, hasSuccess |-> FALSE, success |-> FALSE,
     hasData |-> FALSE, data |-> NoData, hasError |-> TRUE,
     error |-> [msg |-> msg, arg |-> NoAction]]

WithData(r, d) == [r EXCEPT !.hasData = TRUE, !.data = d, !.success = TRUE]
WithSuccess(r, b) == [r EXCEPT !.success = b]

NoResponse == [ErrorOnly("") EXCEPT !.hasError = FALSE]

\* line = sys.stdin.readline().strip(): the empty string at end of file and
\* for a line of whitespace alone.
StripIsEmpty(l) == l.form \in {"eof", "blank"}

\* The successive readings of two and of three clock reads after reading n.
Reads2(n) ==
    {r \in (0..MaxTime) \X (0..MaxTime) : r[1] \in Later(n) /\ r[2] \in Later(r[1])}
Reads3(n) ==
    {r \in (0..MaxTime) \X (0..MaxTime) \X (0..MaxTime) :
        r[1] \in Later(n) /\ r[2] \in Later(r[1]) /\ r[3] \in Later(r[2])}

-----------------------------------------------------------------------------
(* main(): the dispatch loop.  One action per step of an iteration: the    *)
(* read of a line, the branch that handles it (the whole handler, with the *)
(* exceptions it lets through caught by main's outer except), the print.   *)
(* The runs are those of a process that receives no signal: the            *)
(* KeyboardInterrupt branch of main() is not taken.                        *)

\* The history of get_info is not kept / no get_info call has returned yet.
Untracked == [t |-> "untracked"]
NoInfoYet == [t |-> "null"]

Init ==
    /\ info = Untracked
    /\ kind \in {"trigger", "action"}
    /\ self = IF kind = "trigger" THEN cpu_init ELSE svc_init
    /\ now = 0
    /\ pc = "read"
    /\ line = NoLine
    /\ response = NoResponse
    /\ stdin_open = TRUE
    /\ nread = 0
    /\ out = <<>>
    /\ prev = "none"

\* What the handlers leave to the loop: the response is set, print comes next.
Respond(r) ==
    /\ response' = r
    /\ pc' = "print"
    /\ UNCHANGED <<kind, line, stdin_open, nread, out, prev, info>>

Dispatching(a) ==
    /\ pc = "dispatch"
    /\ line.form = "object"
    /\ line.action = Act(a)

\* line = sys.stdin.readline().strip(); if not line: break
\* The peer sends one of the lines of L.
main_readline_from(L) ==
    /\ pc = "read"
    /\ \E l \in L :
        /\ nread >= MaxLines => l.form = "eof"
        /\ line' = l
        /\ stdin_open' = (l.form # "eof")
        /\ IF StripIsEmpty(l)
           THEN pc' = "done" /\ nread' = nread
           ELSE pc' = "dispatch" /\ nread' = nread + 1
    /\ UNCHANGED <<kind, self, now, response, out, prev, info>>

main_readline == main_readline_from(Lines(kind))

\* The JSONDecodeError branch without its print: the variant C9 is set
\* against.
main_invalid_json_silent ==
    /\ pc = "dispatch"
    /\ line.form = "garbage"
    /\ response' = ErrorOnly("Invalid JSON command")
    /\ pc' = "read"
    /\ UNCHANGED <<kind, self, now, line, stdin_open, nread, out, prev, info>>

\* except json.JSONDecodeError: print({"error": ...}); continue
main_invalid_json ==
    /\ pc = "dispatch"
    /\ line.form = "garbage"
    /\ Respond(ErrorOnly("Invalid JSON command"))
    /\ UNCHANGED <<self, now>>

\* command.get on a decoded value that is no dict raises AttributeError,
\* which the outer except turns into a "Plugin error" response.
main_not_an_object ==
    /\ pc = "dispatch"
    /\ line.form = "scalar"
    /\ Respond(ErrorOnly("Plugin error"))
    /\ UNCHANGED <<self, now>>

main_get_info ==
    /\ Dispatching("get_info")
    /\ \E r \in Reads2(now) :
        /\ Respond(WithData(Envelope(line.action),
                            IF kind = "trigger" THEN cpu_get_info(r[1], r[2])
                            ELSE svc_get_info(r[1], r[2])))
        /\ now' = r[2]
    /\ UNCHANGED self

main_initialize ==
    /\ Dispatching("initialize")
    /\ \E available \in BOOLEAN :
        LET r == IF kind = "trigger" THEN cpu_initialize(self, line.config)
                 ELSE svc_initialize(self, line.config, available)
        IN  /\ self' = r.self
            /\ Respond(WithSuccess(Envelope(line.action), r.ret))
    /\ UNCHANGED now

main_start ==
    /\ Dispatching("start")
    /\ \E t \in Later(now) :
        LET r == IF kind = "trigger" THEN cpu_start(self, now, t)
                 ELSE svc_start(self, now, t)
        IN  /\ self' = r.self
            /\ now' = r.now
            /\ Respond(WithSuccess(Envelope(line.action), r.ret))

main_stop ==
    /\ Dispatching("stop")
    /\ LET r == IF kind = "trigger" THEN cpu_stop(self) ELSE svc_stop(self)
       IN  /\ self' = r.self
           /\ Respond(WithSuccess(Envelope(line.action), r.ret))
    /\ UNCHANGED now

main_get_status ==
    /\ Dispatching("get_status")
    /\ Respond(WithData(Envelope(line.action),
                        [t |-> "status",
                         status |-> IF kind = "trigger" THEN cpu_get_status(self)
                                    ELSE svc_get_status(self)]))
    /\ UNCHANGED <<self, now>>

main_get_health ==
    /\ Dispatching("get_health")
    /\ \E r \in Reads2(now), sample \in Samples :
        LET h == IF kind = "trigger" THEN cpu_get_health(self, r[1], sample, r[2])
                 ELSE svc_get_health(self, r[1], r[2])
        IN  /\ now' = h.now
            /\ Respond(IF h.raised THEN ErrorOnly("Plugin error")
                       ELSE WithData(Envelope(line.action), h.data))
    /\ UNCHANGED self

\* detect_triggers() without its try/except, the exception of the sampling
\* reaching main's outer except: the variant C23 is set against.
main_detect_triggers_unguarded ==
    /\ kind = "trigger"
    /\ Dispatching("detect_triggers")
    /\ \E r \in Reads2(now), sample \in Samples :
        LET d == cpu_detect_triggers(self, now, sample, r[1], r[2])
        IN  /\ now' = d.now
            /\ Respond(IF self.running /\ ~sample.ok THEN ErrorOnly("Plugin error")
                       ELSE WithData(Envelope(line.action), d.data))
    /\ UNCHANGED self

main_detect_triggers ==
    /\ kind = "trigger"
    /\ Dispatching("detect_triggers")
    /\ \E r \in Reads2(now), sample \in Samples :
        LET d == cpu_detect_triggers(self, now, sample, r[1], r[2])
        IN  /\ now' = d.now
            /\ Respond(WithData(Envelope(line.action), d.data))
    /\ UNCHANGED self

main_get_trigger_config ==
    /\ kind = "trigger"
    /\ Dispatching("get_trigger_config")
    /\ Respond(WithData(Envelope(line.action), cpu_get_trigger_config))
    /\ UNCHANGED <<self, now>>

main_execute_action ==
    /\ kind = "action"
    /\ Dispatching("execute_action")
    /\ \E r \in Reads3(now), demo \in BOOLEAN,
          run \in {"exit0", "exit1", "timeout", "oserror"} :
        LET x == svc_execute_action(self, line.action_request, now, demo, run,
                                    r[1], r[2], r[3])
        IN  IF x.returns
            THEN /\ now' = x.now
                 /\ Respond(IF x.raised THEN ErrorOnly("Plugin error")
                            ELSE WithData(Envelope(line.action), x.data))
            ELSE \* the process stays inside subprocess.run
                 /\ pc' = "blocked"
                 /\ UNCHANGED <<kind, now, line, response, stdin_open, nread,
                                out, prev, info>>
    /\ UNCHANGED self

main_get_action_config ==
    /\ kind = "action"
    /\ Dispatching("get_action_config")
    /\ Respond(WithData(Envelope(line.action), svc_get_action_config))
    /\ UNCHANGED <<self, now>>

\* The actions the if/elif chain of each main() knows.
Recognised(k) ==
    {"get_info", "initialize", "start", "stop", "get_status", "get_health"}
    \cup (IF k = "trigger" THEN {"detect_triggers", "get_trigger_config"}
          ELSE {"execute_action", "get_action_config"})

\* The else branch answering as the except branches do, with the error
\* alone: the variant C14 is set against.
main_unknown_action_bare ==
    /\ pc = "dispatch"
    /\ line.form = "object"
    /\ ~(line.action.k = "str" /\ line.action.s \in Recognised(kind))
    /\ Respond(ErrorOnly("Unknown action"))
    /\ UNCHANGED <<self, now>>

\* else: response["error"] = f"Unknown action: {action}"
main_unknown_action ==
    /\ pc = "dispatch"
    /\ line.form = "object"
    /\ ~(line.action.k = "str" /\ line.action.s \in Recognised(kind))
    /\ Respond([Envelope(line.action) EXCEPT
                  !.hasError = TRUE,
                  !.error = [msg |-> "Unknown action", arg |-> line.action]])
    /\ UNCHANGED <<self, now>>

LifecycleCommands == {Act("initialize"), Act("start"), Act("stop")}

\* print(json.dumps(response)); the loop then reads the next line.  The
\* locals line and response are dead from here until the next iteration
\* assigns them, and the model forgets them.
main_print ==
    /\ pc = "print"
    /\ out' = Append(out, nread)
    /\ pc' = "read"
    /\ line' = NoLine
    /\ response' = NoResponse
    /\ prev' = IF line.form = "object" /\ line.action \in LifecycleCommands
               THEN line.action.s ELSE "other"
    /\ info' = IF info = NoInfoYet /\ line.form = "object"
                  /\ line.action = Act("get_info") /\ response.hasData
               THEN response.data ELSE info
    /\ UNCHANGED <<kind, self, now, stdin_open, nread>>

Next ==
    \/ main_readline
    \/ main_invalid_json
    \/ main_not_an_object
    \/ main_get_info
    \/ main_initialize
    \/ main_start
    \/ main_stop
    \/ main_get_status
    \/ main_get_health
    \/ main_detect_triggers
    \/ main_get_trigger_config
    \/ main_execute_action
    \/ main_get_action_config
    \/ main_unknown_action
    \/ main_print

Spec == Init /\ [][Next]_vars

\* The same program, with the history of get_info kept.
InitInfo ==
    /\ info = NoInfoYet
    /\ kind \in {"trigger", "action"}
    /\ self = IF kind = "trigger" THEN cpu_init ELSE svc_init
    /\ now = 0
    /\ pc = "read"
    /\ line = NoLine
    /\ response = NoResponse
    /\ stdin_open = TRUE
    /\ nread = 0
    /\ out = <<>>
    /\ prev = "none"

SpecInfo == InitInfo /\ [][Next]_vars

\* The same program with its scheduling, fed from a smaller set of lines:
\* every kind of line, every action name with the default config, and the
\* requests that reach the restart command.  main() is sequential code, so
\* a handler that can run does run and a response that is ready is
\* printed.  Nothing is assumed of readline(), which waits for the peer.
LiveRequests ==
    {Request(TRUE, "a1", sn, PAbsent, to) :
        sn \in {PAbsent, PStr(Nginx), PStr(Cron)}, to \in {Absent, IntV(60)}}

LiveLines(k) ==
    {OtherLine(f, k) : f \in {"eof", "blank", "garbage", "scalar"}}
    \cup {CommandLine(Act(n), EmptyConfigOf(k), EmptyRequest) : n \in ActionNames}
    \cup {CommandLine(Act("execute_action"), EmptyConfigOf(k), r) :
             r \in IF k = "action" THEN LiveRequests ELSE {}}

NextLive ==
    \/ main_readline_from(LiveLines(kind))
    \/ main_invalid_json
    \/ main_not_an_object
    \/ main_get_info
    \/ main_initialize
    \/ main_start
    \/ main_stop
    \/ main_get_status
    \/ main_get_health
    \/ main_detect_triggers
    \/ main_get_trigger_config
    \/ main_execute_action
    \/ main_get_action_config
    \/ main_unknown_action
    \/ main_print

SpecLive ==
    /\ Init
    /\ [][NextLive]_vars
    /\ WF_vars(main_execute_action)
    /\ WF_vars(main_print)

-----------------------------------------------------------------------------
(* Properties.  A command has been handled, and its response is about to   *)
(* be printed, in the states where pc = "print": line is the command,      *)
(* response the answer, self the object as the handler left it.            *)

Answered(a) == pc = "print" /\ line.form = "object" /\ line.action = Act(a)

\* The lifecycle state get_status() reports.
Status == IF kind = "trigger" THEN cpu_get_status(self) ELSE svc_get_status(self)

\* C1: in the trigger plugin detect_triggers returns a TriggerEvent only
\* if the lifecycle state reported by get_status is "running"; in every
\* other state it returns none.
C1_EventOnlyWhenRunning ==
    (kind = "trigger" /\ Answered("detect_triggers"))
        => (response.data.t = "event" => Status = "running")

\* C2: in the action plugin execute_action, called with a request that has
\* an id while the lifecycle state is not "running", returns a Result with
\* status "failed", an error and the request's id; it returns "completed"
\* only when the state is "running".
C2_FailedUnlessRunning ==
    (kind = "action" /\ Answered("execute_action") /\ line.action_request.hasId)
        => /\ response.hasData /\ response.data.t = "result"
           /\ Status # "running" =>
                /\ response.data.status = "failed"
                /\ response.data.error # ""
                /\ response.data.id = line.action_request.id
           /\ response.data.status = "completed" => Status = "running"

\* C3: get_health reports status "healthy" if and only if the lifecycle
\* state returned by get_status is "running".
C3_HealthyIffRunning ==
    (Answered("get_health") /\ response.hasData)
        => (response.data.status = "healthy" <=> Status = "running")

\* C4: get_health reports uptime equal to now minus start_time when the
\* plugin is running and 0 whenever it is not running (0 before the first
\* start and 0 again after a start followed by stop).
C4_UptimeZeroWhenNotRunning ==
    (Answered("get_health") /\ response.hasData)
        => response.data.uptime =
              IF self.running THEN now - self.start_time.t ELSE 0

\* C5: whenever start() returns success, from any reachable state, the
\* lifecycle state reported by the next get_status is "running".
C5_StartLeavesRunning ==
    (Answered("start") /\ response.success) => Status = "running"

\* C6: stop() succeeds from every reachable lifecycle state and always
\* leaves the state "stopped", also when it follows another stop().
C6_StopAlwaysStopped ==
    Answered("stop") =>
        /\ response.hasSuccess /\ response.success
        /\ Status = "stopped"

\* C6 happens: a stop that follows a stop, on a plugin that had been
\* started, has been answered.
C6_Witness ==
    /\ Answered("stop")
    /\ prev = "stop"
    /\ self.start_time.set
    /\ response.success
    /\ Status = "stopped"

\* C7: when start() is called twice in a row, the second call returns
\* success, the state stays "running", and start_time keeps the value
\* recorded by the first call.
C7_StartIdempotent ==
    [][(main_start /\ prev = "start")
          => /\ response'.success
             /\ self'.status = "running"
             /\ self'.start_time = self.start_time]_vars

\* A present key fails the published ConfigSchema: its value is not of the
\* declared type, or lies outside the declared minimum and maximum.
FailsOption(v, opt, scale) ==
    /\ v.k # "absent"
    /\ \/ opt.type = "number" /\ v.k \notin {"int", "float"}
       \/ opt.type = "integer" /\ v.k # "int"
       \/ /\ v.k \in {"int", "float"}
          /\ LET x == IF v.k = "int" THEN scale * v.n ELSE v.n
             IN  x < opt.minimum \/ (opt.hasMax /\ x > opt.maximum)

FailsSchema(config) ==
    /\ config.isdict
    /\ \/ FailsOption(config.threshold, cpu_get_trigger_config.threshold, 10)
       \/ FailsOption(config.interval, cpu_get_trigger_config.interval, 1)

\* C8: for every config that fails validation against the published
\* ConfigSchema, initialize returns failure and the next get_status returns
\* "error".
C8_InvalidConfigRejected ==
    (kind = "trigger" /\ Answered("initialize") /\ FailsSchema(line.config))
        => (~response.success /\ Status = "error")

\* C9: the loop is strictly request/response: one response line per command
\* line read, the i-th response answers the i-th command, and no line is read
\* before the response to the previous one has been written.
C9_RequestResponse ==
    /\ \A i \in 1..Len(out) : out[i] = i
    /\ pc \in {"read", "done"} => Len(out) = nread
    /\ pc \in {"dispatch", "print"} => Len(out) = nread - 1
    /\ pc = "print" =>
          \/ /\ line.form = "object"
             /\ response.hasAction
             /\ response.action = line.action
          \/ /\ line.form \in {"object", "scalar"}
             /\ response = ErrorOnly("Plugin error")
          \/ /\ line.form = "garbage"
             /\ response = ErrorOnly("Invalid JSON command")

\* C9 happens: two lines have been read and answered, the third is no
\* JSON and its response is about to be written.
C9_Witness ==
    /\ pc = "print"
    /\ line.form = "garbage"
    /\ nread = 3
    /\ out = <<1, 2>>
    /\ response = ErrorOnly("Invalid JSON command")

\* C10: the loop terminates only when the input channel closes, so every
\* command line that arrives before end-of-input is answered, whatever
\* lines (malformed, empty, whitespace-only) precede it.
C10_StopsOnlyAtEndOfInput ==
    pc = "done" => ~stdin_open

\* C11: every non-empty line that is not valid envelope syntax (text that
\* is not JSON, or JSON that is not an object) is answered with exactly
\* {"error": "Invalid JSON command"}, without action field; the plugin
\* object is left as it was and the loop goes on to the print and the next
\* line.
C11_MalformedLineRejected ==
    [][(pc = "dispatch" /\ line.form \in {"garbage", "scalar"})
          => /\ response' = ErrorOnly("Invalid JSON command")
             /\ self' = self
             /\ pc' = "print"]_vars

\* C12: every response whose success field is false carries an error
\* field, the responses to a failed initialize, start or stop included.
C12_FailureCarriesError ==
    (pc = "print" /\ response.hasSuccess /\ ~response.success)
        => response.hasError

\* C13: for every line that decodes to a command object the response
\* carries an action field equal to the command's action and a boolean
\* success field, also when the handler fails internally.
C13_EnvelopeOnEveryCommand ==
    (pc = "print" /\ line.form = "object")
        => /\ response.hasAction
           /\ response.action = line.action
           /\ response.hasSuccess

\* C14: a command whose action value v is not one of the plugin's
\* recognised actions (a capability action of the other plugin type
\* included) is answered with {action: v, success: false,
\* error: "Unknown action: v"}, and the plugin object is left as it was.
C14_UnknownAction ==
    [][(/\ pc = "dispatch"
        /\ line.form = "object"
        /\ line.action \notin
             {Act(a) : a \in {"get_info", "initialize", "start", "stop",
                              "get_status", "get_health"}
                             \cup (IF kind = "trigger"
                                   THEN {"detect_triggers", "get_trigger_config"}
                                   ELSE {"execute_action", "get_action_config"})})
          => /\ response' = [hasAction |-> TRUE, action |-> line.action,
                             hasSuccess |-> TRUE, success |-> FALSE,
                             hasData |-> FALSE, data |-> NoData,
                             hasError |-> TRUE,
                             error |-> [msg |-> "Unknown action",
                                        arg |-> line.action]]
             /\ self' = self
             /\ pc' = "print"]_vars

\* C14 happens: the trigger plugin, started, has answered the action
\* plugin's execute_action as an unknown action.
C14_Witness ==
    /\ kind = "trigger"
    /\ Answered("execute_action")
    /\ self.running
    /\ response.hasError
    /\ response.error = [msg |-> "Unknown action", arg |-> Act("execute_action")]

\* C15: PluginInfo is immutable: any two get_info calls on the same plugin
\* instance, at any two points of a command sequence, return identical
\* values in every field, created_at and updated_at included.
C15_InfoImmutable ==
    (Answered("get_info") /\ info # NoInfoYet /\ info # Untracked)
        => response.data = info

\* C16: for a running trigger plugin, every sampled value v and the
\* configured threshold t: detect_triggers returns none when v <= t and one
\* TriggerEvent when v > t, whose data carries cpu_usage = v and
\* threshold = t and whose severity is "high" when v > 90 and "medium"
\* otherwise.  Stated of every result the call can give where it is made,
\* and of the event in the response.
C16_ThresholdAndSeverity ==
    (kind = "trigger" /\ Status = "running") =>
        /\ Dispatching("detect_triggers") =>
              \A sample \in {x \in Samples : x.ok}, r \in Reads2(now) :
                 LET v == sample.val
                     t == self.threshold
                     d == cpu_detect_triggers(self, now, sample, r[1], r[2]).data
                 IN  IF v <= t THEN d.t = "null"
                     ELSE /\ d.t = "event"
                          /\ d.cpu_usage = v
                          /\ d.threshold = t
                          /\ d.severity = IF v > 900 THEN "high" ELSE "medium"
        /\ (Answered("detect_triggers") /\ response.data.t = "event") =>
              /\ response.data.cpu_usage > self.threshold
              /\ response.data.threshold = self.threshold
              /\ response.data.severity =
                    IF response.data.cpu_usage > 900 THEN "high" ELSE "medium"

\* C16 happens: a running trigger plugin with the default threshold has
\* answered a sample of exactly 90.0 with an event of severity "medium".
C16_Witness ==
    /\ kind = "trigger"
    /\ Answered("detect_triggers")
    /\ Status = "running"
    /\ response.data.t = "event"
    /\ response.data.cpu_usage = 900
    /\ response.data.threshold = 800
    /\ response.data.severity = "medium"

\* C17: execute_action with a request that has an id but lacks the required
\* parameter service_name (absent or empty) returns a Result with status
\* "failed", an error and the request's id, in every lifecycle state, and
\* the restart command is never run (the Result has no data of a command).
C17_MissingServiceName ==
    (/\ kind = "action"
     /\ Answered("execute_action")
     /\ line.action_request.hasId
     /\ \/ line.action_request.service_name.k = "absent"
        \/ /\ line.action_request.service_name.k = "str"
           /\ line.action_request.service_name.s = <<>>)
        => /\ response.hasAction /\ response.hasData
           /\ response.data.t = "result"
           /\ response.data.status = "failed"
           /\ response.data.error # ""
           /\ response.data.id = line.action_request.id
           /\ ~response.data.hasData
           /\ response.data.command = <<>>

\* C17 happens: the running action plugin has answered request "a2", which
\* has no service_name, with the error naming the missing parameter.
C17_Witness ==
    /\ kind = "action"
    /\ Answered("execute_action")
    /\ self.running
    /\ line.action_request.hasId
    /\ line.action_request.id = "a2"
    /\ line.action_request.service_name.k = "absent"
    /\ response.data.status = "failed"
    /\ response.data.id = "a2"
    /\ response.data.error = "service_name parameter is required"

\* An execute_action command with an id and a service name has been
\* answered; the allow-list restricts; the restart command was run.
NamedRequestAnswered ==
    /\ kind = "action"
    /\ Answered("execute_action")
    /\ line.action_request.hasId
    /\ line.action_request.service_name.k = "str"
    /\ line.action_request.service_name.s # <<>>

Restricted ==
    /\ self.allowed_services.k = "list"
    /\ self.allowed_services.items # {}

Dispatched ==
    /\ response.hasData
    /\ response.data.hasData
    /\ response.data.command # <<>>

\* C18: authorization precedes dispatch in execute_action: when the
\* configured allowed_services list is non-empty and the requested service
\* is not in it, the Result is "failed" and the restart command is never
\* run; when the list is empty or not configured, any validly named service
\* is dispatched (by a running plugin).
C18_AuthorizationPrecedesDispatch ==
    NamedRequestAnswered =>
        LET name == line.action_request.service_name.s
        IN  /\ (Restricted /\ name \notin self.allowed_services.items)
                  => (response.data.status = "failed" /\ ~Dispatched)
            /\ (self.running /\ ~Restricted /\ svc_is_valid_service_name(name))
                  => Dispatched

\* C18 as the code has it: a service outside a non-empty allow-list is
\* failed and never dispatched; with an empty or unconfigured list a validly
\* named service requested of a running plugin is dispatched exactly when
\* the method (the request's, else the stored service_manager) is one of
\* systemctl, service, docker, and is otherwise failed as "Unsupported
\* method" without being dispatched.
C18_AuthorizationThenMethod ==
    NamedRequestAnswered =>
        LET name == line.action_request.service_name.s
            method == DictGet(line.action_request.method, self.service_manager)
            supported == method.k = "str"
                         /\ method.s \in {Systemctl, Service, Docker}
        IN  /\ (Restricted /\ name \notin self.allowed_services.items)
                  => (response.data.status = "failed" /\ ~Dispatched)
            /\ (self.running /\ ~Restricted /\ svc_is_valid_service_name(name))
                  => /\ Dispatched <=> supported
                     /\ ~supported =>
                          /\ response.data.status = "failed"
                          /\ response.data.error = "Unsupported method"

\* C18 happens: the running plugin, configured to allow mysql only, has
\* refused to restart nginx.
C18_Witness ==
    /\ NamedRequestAnswered
    /\ self.running
    /\ self.allowed_services = ListV({Mysql})
    /\ line.action_request.service_name = PStr(Nginx)
    /\ response.data.status = "failed"
    /\ response.data.error = "Service is not in allowed list"
    /\ ~Dispatched

\* C19: every ActionResult returned by execute_action (completed, failed by
\* validation, failed by the command, failed because not running) carries
\* started_at, completed_at and duration with
\* duration = completed_at - started_at, each clock read returning the
\* previous reading or a later one.
C19_DurationConsistent ==
    (kind = "action" /\ Answered("execute_action") /\ response.hasData)
        => response.data.duration =
              response.data.completed_at - response.data.started_at

\* C20: the restart command run by execute_action is bounded by the
\* request's timeout parameter when one is given and by the default of the
\* action schema otherwise, so that two requests that differ only in
\* timeout run it under different bounds.  Stated of every result the call
\* can give, where it is made, when it runs the command.
C20_TimeoutFromRequest ==
    (kind = "action" /\ Dispatching("execute_action")) =>
        \A r \in Reads3(now), run \in {"exit0", "exit1", "timeout", "oserror"} :
           LET req == line.action_request
               x == svc_execute_action(self, req, now, FALSE, run, r[1], r[2], r[3])
           IN  (~x.raised /\ x.data.hasData) =>
                  /\ x.timeout.bounded
                  /\ x.timeout.seconds =
                        IF req.timeout.k = "int" THEN req.timeout.n
                        ELSE svc_get_action_config.timeout.default

\* C21: no command blocks the loop forever: every execute_action command is
\* eventually answered and the loop comes back to read the next command;
\* and when the restart command stalls, the call is abandoned at the time
\* bound and the Result is "failed" with an error that denotes a timeout.
C21_NoCommandBlocksForever ==
    /\ (kind = "action" /\ Dispatching("execute_action"))
          ~> (pc = "print" /\ Len(out) = nread - 1)
    /\ (pc = "print") ~> (pc = "read" /\ Len(out) = nread)
    /\ [](kind = "action" /\ Dispatching("execute_action") =>
            \A r \in Reads3(now) :
               LET x == svc_execute_action(self, line.action_request, now,
                                           FALSE, "timeout", r[1], r[2], r[3])
               IN  (~x.raised /\ x.data.hasData) =>
                      /\ x.returns
                      /\ x.timeout.bounded
                      /\ x.data.status = "failed"
                      /\ x.data.error = "Command timed out")

\* C21 happens: the running action plugin has answered a restart whose
\* command stalled with a failed Result that reports the timeout.
C21_Witness ==
    /\ kind = "action"
    /\ Answered("execute_action")
    /\ self.running
    /\ response.hasData
    /\ response.data.status = "failed"
    /\ response.data.error = "Command timed out"
    /\ response.data.command # <<>>

\* C22: config is replaced wholesale, never merged: after a successful
\* initialize(c2), whatever initialize calls came before, the stored config
\* is c2 and the effective options (threshold and interval; allowed_services
\* and service_manager) are those c2 and the defaults give a newly
\* constructed plugin, so an option absent from c2 is at its default.
C22_ConfigReplacedWholesale ==
    (Answered("initialize") /\ response.success) =>
        /\ self.config = line.config
        /\ kind = "trigger" =>
             LET fresh == cpu_initialize(cpu_init, line.config).self
             IN  /\ self.threshold = fresh.threshold
                 /\ self.interval = fresh.interval
                 /\ line.config.threshold.k = "absent" => self.threshold = 800
                 /\ line.config.interval.k = "absent" => self.interval = 30
        /\ kind = "action" =>
             LET fresh == svc_initialize(svc_init, line.config, TRUE).self
             IN  /\ self.allowed_services = fresh.allowed_services
                 /\ self.service_manager = fresh.service_manager
                 /\ line.config.allowed_services.k = "absent"
                       => self.allowed_services = ListV({})
                 /\ line.config.service_manager.k = "absent"
                       => self.service_manager = PStr(Systemctl)

\* C22 happens: an initialize that follows an initialize has succeeded on
\* the trigger plugin with a config that sets the interval only, and the
\* threshold is the default.
C22_Witness ==
    /\ kind = "trigger"
    /\ Answered("initialize")
    /\ prev = "initialize"
    /\ response.success
    /\ line.config = CpuConfig(Absent, IntV(60))
    /\ self.interval = 60
    /\ self.threshold = 800

\* C23: when the sampling operation fails inside detect_triggers on a
\* running trigger plugin the call returns none (and reads no clock), the
\* response is {action: detect_triggers, success: true, data: null}, the
\* plugin object is unchanged and the loop goes on to the print.  Stated of
\* the call with a failing sample where it is made, and of every step that
\* answers detect_triggers on a running plugin: a success with the action
\* echoed, whose data is null or an event above the threshold.
C23_SamplingFailureIsNoEvent ==
    [][(kind = "trigger" /\ Dispatching("detect_triggers") /\ self.running)
          => /\ \A r \in Reads2(now) :
                   cpu_detect_triggers(self, now, SampleFails, r[1], r[2])
                      = [data |-> [t |-> "null"], now |-> now]
             /\ self' = self
             /\ pc' = "print"
             /\ response'.hasAction /\ response'.action = Act("detect_triggers")
             /\ response'.hasSuccess /\ response'.success
             /\ ~response'.hasError
             /\ response'.hasData
             /\ \/ response'.data = [t |-> "null"]
                \/ /\ response'.data.t = "event"
                   /\ response'.data.cpu_usage > self.threshold]_vars

\* C23 happens: the running trigger plugin, configured with threshold 50.0,
\* below every value a successful sample gives here, has answered
\* detect_triggers with null: the sample failed.
C23_Witness ==
    /\ kind = "trigger"
    /\ Answered("detect_triggers")
    /\ self.running /\ Status = "running"
    /\ self.threshold = 500
    /\ \A x \in Samples : x.ok => x.val > self.threshold
    /\ response = [hasAction |-> TRUE, action |-> Act("detect_triggers"),
                   hasSuccess |-> TRUE, success |-> TRUE,
                   hasData |-> TRUE, data |-> [t |-> "null"],
                   hasError |-> FALSE, error |-> NoError]

\* C24: every ActionResult returned by execute_action for a request with an
\* id is terminal: its status is "completed" or "failed", never "running",
\* and its id is the request's id, on every path (not running, validation
\* failure, authorization failure, command success, command failure,
\* exception during execution).
C24_ResultIsTerminal ==
    (kind = "action" /\ Answered("execute_action") /\ line.action_request.hasId)
        => /\ response.hasAction /\ response.hasData
           /\ response.data.t = "result"
           /\ response.data.status \in {"completed", "failed"}
           /\ response.data.id = line.action_request.id

\* C24 happens: the running plugin has answered a request whose
\* service_name is a number, on which the validation raises: the Result is
\* the one finalized after the except branch.
C24_Witness ==
    /\ kind = "action"
    /\ Answered("execute_action")
    /\ self.running
    /\ line.action_request.hasId
    /\ line.action_request.service_name = PInt
    /\ response.data.status = "failed"
    /\ response.data.error = "TypeError"
    /\ response.data.id = line.action_request.id

\* C25: in every reachable state of either plugin, after any sequence of
\* initialize/start/stop commands, the internal running flag (which gates
\* detect_triggers, execute_action and health) is true if and only if the
\* status returned by get_status is "running".
C25_RunningFlagMatchesStatus ==
    self.running <=> Status = "running"

\* C26: a running trigger plugin only ever operates on options that passed
\* validation: whenever detect_triggers emits an event, the stored
\* threshold lies in [0, 100] and the stored interval is at least 1, even
\* after an initialize call that returned failure followed by start.
C26_EventOnlyOnValidOptions ==
    (kind = "trigger" /\ Answered("detect_triggers") /\ response.data.t = "event")
        => /\ 0 <= self.threshold /\ self.threshold <= 1000
           /\ self.interval >= 1

=============================================================================
